---------------------------- MODULE Spec2Model ----------------------------
(***************************************************************************)
(* MergePDF (app/main.py): one GET /merge request, from the decoded        *)
(* members list to the response.  The request groups the members' file     *)
(* URLs by nid, resolves each nid to one PDF by trying its URLs in order   *)
(* (download, then convert_to_pdf), merges the PDFs with merge_pdf_files,  *)
(* uploads the merged PDF and schedules the removal of its processing      *)
(* directory.                                                              *)
(*                                                                         *)
(* Text (a nid's printed form, a file name) is a sequence of one-character *)
(* strings, so that formatting f"file_{identifier}.pdf" and the path       *)
(* separator are modelled by what they do.                                 *)
(***************************************************************************)
EXTENDS Integers, Sequences, FiniteSets, TLC

\* Bounds of the model: members in the members list, field values per member.
MaxMembers == 2
MaxImagePx == 24
MaxSmallDPI == 9
MaxRequests == 2
MaxAddresses == 2
MaxNids == 2
MaxFields == 2

\* Pages of a well-formed source PDF of the model (the test asset has 3).
GoodPdfPages == 2

VARIABLES
    members_data,   \* the JSON array returned by the members-list endpoint
    KEEP_FILES,     \* MERGEPDF_KEEP_FILES, read once at start-up
    pc,             \* where the request handler stands
    files_by_nid,   \* insertion-ordered dict nid -> list of URLs
    item,           \* index of the nid being resolved (outer loop)
    attempt,        \* index of the next URL of that nid (inner loop)
    pdf_path,       \* the inner loop's pdf_path; <<>> is None
    response,       \* the last download's response
    conv,           \* what the last convert_to_pdf call did
    pdf_files,      \* the list handed to merge_pdf_files
    fs,             \* the files of the processing directory: name -> content
    dir_exists,     \* whether the processing directory exists
    merge_call,     \* the merge_pdf_files call, once made
    uploaded,       \* the content PUT to the repository
    result,         \* the HTTP response of the request
    bg_tasks,       \* background tasks scheduled and not yet run
    tried,          \* log: the candidates of the current nid tried so far
    outcomes,       \* log: per nid already resolved, the document it produced
    DPI,            \* MERGEPDF_DPI, read once at start-up
    image,          \* the image inside _fit_image_to_pdf, and the page made of it
    requests,       \* the /merge requests of one process: position, directory
    temp_root,      \* PERSISTENT_TEMP_DIR: the request_<id> directories and their files
    bg,             \* background tasks scheduled and not yet run
    exited,         \* the process has exited (atexit handlers ran)
    interference    \* log: a request touching the files of another one

request_vars == <<members_data, pc, files_by_nid, item, attempt, pdf_path,
                  response, conv, pdf_files, fs, dir_exists, merge_call, uploaded,
                  result, bg_tasks, tried, outcomes>>

fit_vars == <<DPI, image>>

server_vars == <<requests, temp_root, bg, exited, interference>>

vars == <<request_vars, KEEP_FILES, fit_vars, server_vars>>

-----------------------------------------------------------------------------
(* Values *)

None == <<>>

\* nid values of the members list: JSON scalars.  t is the JSON type, s the
\* text str() gives; an empty string is falsy.
NidInt1 == [t |-> "int", s |-> <<"1">>]
NidStr1 == [t |-> "str", s |-> <<"1">>]
NidStr2 == [t |-> "str", s |-> <<"2">>]
NidSlash == [t |-> "str", s |-> <<"a", "/", "b">>]
NidEmpty == [t |-> "str", s |-> <<>>]
Nids == {NidInt1, NidStr1, NidStr2, NidSlash, NidEmpty}

\* A member's field value: an http(s) URL string, or anything else.
FieldValues == {"url", "other"}

SeqsUpTo(S, n) == UNION {[1..k -> S] : k \in 0..n}

\* A member of the list: a dict with a nid and fields, or not a dict.
Members ==
    {[isdict |-> FALSE, nid |-> NidEmpty, fields |-> <<>>]}
    \cup {[isdict |-> TRUE, nid |-> n, fields |-> f] :
             n \in Nids, f \in SeqsUpTo(FieldValues, MaxFields)}

\* A URL is named by its place in the members list: <<member, field>>.
NoSrc == <<0, 0>>

ContentTypes ==
    {<<"application", "pdf">>, <<"image", "jpeg">>, <<"application", "octet-stream">>}

\* A page of a PDF: page n of the source it came from; layer tells a page
\* copied from a source PDF from the letter-size page (image with OCR text
\* layer) that _fit_image_to_pdf builds.
SourcePages(src) == [n \in 1..GoodPdfPages |-> [src |-> src, n |-> n, layer |-> "source"]]
OcrPage(src) == [src |-> src, n |-> 1, layer |-> "image+text"]

\* The bytes of a download or of a file.
\*   PDF       a well-formed PDF with its pages
\*   PDFBAD    begins with %PDF but cannot be parsed (truncated, corrupt)
\*   HTML      neither a PDF nor an image (an error page, a text file)
\*   IMG       a decodable image the OCR engine accepts
\*   IMGNOOCR  a decodable image the OCR engine fails on
ByteKinds == {"PDF", "PDFBAD", "HTML", "IMG", "IMGNOOCR"}

Bytes(kind, src) ==
    [kind |-> kind, src |-> src,
     pages |-> IF kind = "PDF" THEN SourcePages(src) ELSE <<>>]

NoDoc == [kind |-> "NONE", src |-> NoSrc, pages |-> <<>>]

FetchStatuses == {"ok", "connect", "timeout", "httperr"}

NoResponse == [status |-> "none", content_type |-> <<>>, content |-> NoDoc]

\* What client.get(file_url) followed by raise_for_status() can give.
Responses(src) ==
    {[status |-> s, content_type |-> <<>>, content |-> NoDoc] :
        s \in FetchStatuses \ {"ok"}}
    \cup {[status |-> "ok", content_type |-> ct, content |-> Bytes(k, src)] :
            ct \in ContentTypes, k \in ByteKinds}

NoConv == [outcome |-> "none", path |-> None, branch |-> "none", ran_image |-> FALSE]
NoMerge == [called |-> FALSE, inputs |-> <<>>, raised |-> FALSE, at |-> 0]
NoResult == [status |-> 0, detail |-> ""]

\* DPI = int(os.getenv("MERGEPDF_DPI", "200"))
DefaultDPI == 200

NoImage == [stage |-> "idle", w |-> 0, h |-> 0, in_w |-> 0, in_h |-> 0,
            exif |-> "none", orig_w |-> 0, orig_h |-> 0,
            pdf_pages |-> 0, pdf_w |-> 0, pdf_h |-> 0]

-----------------------------------------------------------------------------
(* Grouping the members by nid: merge_pdfs, lines 155-175 *)

\* Position of nid among the dict's keys, 0 when absent.  Keys compare as
\* Python values: the int 1 and the str "1" are different keys.
KeyIndex(d, nid) ==
    IF \E i \in 1..Len(d) : d[i].nid = nid
    THEN CHOOSE i \in 1..Len(d) : d[i].nid = nid
    ELSE 0

\* The URLs among a member's field values, in the member's key order.
RECURSIVE FieldUrls(_, _, _)
FieldUrls(fields, m, f) ==
    IF f > Len(fields) THEN <<>>
    ELSE (IF fields[f] = "url" THEN <<(<<m, f>>)>> ELSE <<>>)
         \o FieldUrls(fields, m, f + 1)

\* One turn of "for member in members_data".
AddMember(d, member, m) ==
    IF ~member.isdict THEN d
    ELSE IF member.nid.s = <<>> THEN d
    ELSE LET d1 == IF KeyIndex(d, member.nid) = 0
                   THEN Append(d, [nid |-> member.nid, urls |-> <<>>])
                   ELSE d
             k == KeyIndex(d1, member.nid)
         IN  [d1 EXCEPT ![k].urls = @ \o FieldUrls(member.fields, m, 1)]

RECURSIVE GroupLoop(_, _, _)
GroupLoop(members, m, d) ==
    IF m > Len(members) THEN d
    ELSE GroupLoop(members, m + 1, AddMember(d, members[m], m))

HasUrls(e) == Len(e.urls) > 0

\* files_by_nid after "Remove nids with no files".
GroupByNid(members) == SelectSeq(GroupLoop(members, 1, <<>>), HasUrls)

-----------------------------------------------------------------------------
(* Files of the processing directory *)

\* f"file_{identifier}.pdf"
FileName(identifier) == <<"f", "i", "l", "e", "_">> \o identifier.s \o <<".", "p", "d", "f">>

MergedName == <<"m", "e", "r", "g", "e", "d", ".", "p", "d", "f">>

HasSep(name) == \E i \in 1..Len(name) : name[i] = "/"

\* open(os.path.join(temp_dir, name), "wb") succeeds when the file's directory
\* exists: the processing directory holds no subdirectories, so a name with a
\* path separator in it cannot be opened.
CanOpenForWrite(exists, name) == exists /\ ~HasSep(name)

WriteFile(files, name, content) ==
    [n \in DOMAIN files \cup {name} |-> IF n = name THEN content ELSE files[n]]

NoFiles == [n \in {} |-> NoDoc]

-----------------------------------------------------------------------------
(* convert_to_pdf and _fit_image_to_pdf *)

HasPdfSignature(bytes) == bytes.kind \in {"PDF", "PDFBAD"}
Decodable(bytes) == bytes.kind \in {"IMG", "IMGNOOCR"}
OcrSucceeds(bytes) == bytes.kind = "IMG"
Parseable(content) == content.kind = "PDF"
IsPdfType(content_type) == content_type = <<"application", "pdf">>
IsImageType(content_type) == Len(content_type) > 0 /\ content_type[1] = "image"

\* _fit_image_to_pdf: Image.open, the fitting, the OCR engine, then the page
\* written to file_<identifier>.pdf.  Every step can raise; the file is
\* written last.  Result: raised, or the path and the files after the write.
fit_image_to_pdf(file_bytes, files, exists, identifier) ==
    LET name == FileName(identifier)
        page == [kind |-> "PDF", src |-> file_bytes.src,
                 pages |-> <<OcrPage(file_bytes.src)>>]
    IN  IF ~Decodable(file_bytes)
            THEN [raised |-> TRUE, path |-> None, files |-> files]
        ELSE IF ~OcrSucceeds(file_bytes)
            THEN [raised |-> TRUE, path |-> None, files |-> files]
        ELSE IF ~CanOpenForWrite(exists, name)
            THEN [raised |-> TRUE, path |-> None, files |-> files]
        ELSE [raised |-> FALSE, path |-> name, files |-> WriteFile(files, name, page)]

\* convert_to_pdf.  outcome: "path" (returned a path), "null" (returned None)
\* or "raised" (an exception left the function); branch: which of the three
\* branches ran; ran_image: whether _fit_image_to_pdf was called.
convert_to_pdf(file_bytes, content_type, files, exists, identifier) ==
    LET name == FileName(identifier)
        img == fit_image_to_pdf(file_bytes, files, exists, identifier)
        branch == IF IsImageType(content_type) THEN "image" ELSE "other"
    IN  IF IsPdfType(content_type) \/ HasPdfSignature(file_bytes)
        THEN IF CanOpenForWrite(exists, name)
             THEN [outcome |-> "path", path |-> name, branch |-> "pdf",
                   ran_image |-> FALSE, files |-> WriteFile(files, name, file_bytes)]
             ELSE [outcome |-> "raised", path |-> None, branch |-> "pdf",
                   ran_image |-> FALSE, files |-> files]
        ELSE IF img.raised
             THEN [outcome |-> "null", path |-> None, branch |-> branch,
                   ran_image |-> TRUE, files |-> files]
             ELSE [outcome |-> "path", path |-> img.path, branch |-> branch,
                   ran_image |-> TRUE, files |-> img.files]

-----------------------------------------------------------------------------
(* merge_pdf_files *)

\* A loop that adds each input's first page only.
AddFirstPage(writer, pages, n) ==
    IF pages = <<>> THEN writer ELSE Append(writer, pages[1])

\* "for page in reader.pages: writer.add_page(page)"
RECURSIVE AddPages(_, _, _)
AddPages(writer, pages, n) ==
    IF n > Len(pages) THEN writer
    ELSE AddPages(Append(writer, pages[n]), pages, n + 1)

\* A loop that skips an input it cannot read.
RECURSIVE MergeLoopSkip(_, _, _, _)
MergeLoopSkip(pdf_paths, files, i, writer) ==
    IF i > Len(pdf_paths) THEN [raised |-> FALSE, at |-> 0, writer |-> writer]
    ELSE IF pdf_paths[i] \notin DOMAIN files \/ ~Parseable(files[pdf_paths[i]])
         THEN MergeLoopSkip(pdf_paths, files, i + 1, writer)
         ELSE MergeLoopSkip(pdf_paths, files, i + 1,
                            AddPages(writer, files[pdf_paths[i]].pages, 1))

\* "for pdf_path in pdf_paths": a PdfReader that fails re-raises at once.
RECURSIVE MergeLoop(_, _, _, _)
MergeLoop(pdf_paths, files, i, writer) ==
    IF i > Len(pdf_paths) THEN [raised |-> FALSE, at |-> 0, writer |-> writer]
    ELSE IF pdf_paths[i] \notin DOMAIN files \/ ~Parseable(files[pdf_paths[i]])
         THEN [raised |-> TRUE, at |-> i, writer |-> writer]
         ELSE MergeLoop(pdf_paths, files, i + 1,
                        AddPages(writer, files[pdf_paths[i]].pages, 1))

\* merge_pdf_files: raised, or merged.pdf written with the writer's pages.
merge_pdf_files(pdf_paths, files) ==
    LET r == MergeLoop(pdf_paths, files, 1, <<>>)
    IN  IF r.raised
        THEN [raised |-> TRUE, at |-> r.at, path |-> None, files |-> files]
        ELSE [raised |-> FALSE, at |-> 0, path |-> MergedName,
              files |-> WriteFile(files, MergedName,
                                  [kind |-> "PDF", src |-> NoSrc, pages |-> r.writer])]

-----------------------------------------------------------------------------
(* The request handler merge_pdfs *)

\* A request that has not arrived.
NoRequest == [pc |-> "waiting", dir |-> 0, nid |-> 0,
              wrote_file |-> FALSE, wrote_merged |-> FALSE]

\* A directory that does not exist: no file_<nid>.pdf, no merged.pdf.  A file is
\* represented by the request that wrote it, 0 when there is none.
NoDir == [exists |-> FALSE, inter |-> [n \in 1..MaxNids |-> 0], merged |-> 0]

\* Several requests in one process are followed in SpecServer; here there is
\* the one request of the handler.
ServerIdle ==
    /\ requests = [r \in 1..MaxRequests |-> NoRequest]
    /\ temp_root = [a \in 1..MaxAddresses |-> NoDir]
    /\ bg = {}
    /\ exited = FALSE
    /\ interference = {}

\* The image pipeline's geometry is followed in SpecFit; here it is at rest.
FitIdle ==
    /\ DPI = DefaultDPI
    /\ image = NoImage

Init ==
    /\ FitIdle
    /\ ServerIdle
    /\ members_data \in SeqsUpTo(Members, MaxMembers)
    /\ KEEP_FILES \in BOOLEAN
    /\ pc = "group"
    /\ files_by_nid = <<>>
    /\ item = 0
    /\ attempt = 0
    /\ pdf_path = None
    /\ response = NoResponse
    /\ conv = NoConv
    /\ pdf_files = <<>>
    /\ fs = NoFiles
    /\ dir_exists = FALSE
    /\ merge_call = NoMerge
    /\ uploaded = NoDoc
    /\ result = NoResult
    /\ bg_tasks = FALSE
    /\ tried = <<>>
    /\ outcomes = <<>>

\* Lines 155-186: group the URLs by nid; 400 when no nid has a URL; else
\* create the processing directory and enter the loops.
Group ==
    /\ pc = "group"
    /\ LET d == GroupByNid(members_data)
       IN  IF d = <<>>
           THEN /\ result' = [status |-> 400, detail |-> "No files found in members data"]
                /\ pc' = "done"
                /\ UNCHANGED <<files_by_nid, item, attempt, dir_exists>>
           ELSE /\ files_by_nid' = d
                /\ dir_exists' = TRUE
                /\ item' = 1
                /\ attempt' = 1
                /\ pc' = "resolve"
                /\ UNCHANGED result
    /\ UNCHANGED <<members_data, KEEP_FILES, pdf_path, response, conv, pdf_files,
                   fs, merge_call, uploaded, bg_tasks, tried, outcomes>>
    /\ UNCHANGED <<fit_vars, server_vars>>

\* The inner loop without its break.
NextAttemptNoBreak(path, a, n) ==
    IF a < n THEN a + 1 ELSE 0

\* The inner loop's control after one URL: 0 leaves the loop (the break on a
\* path, or the URLs are exhausted), else the index of the next URL.
NextAttempt(path, a, n) ==
    IF path # None THEN 0
    ELSE IF a < n THEN a + 1
    ELSE 0

\* pdf_path after one URL: assigned only when convert_to_pdf returns; a failed
\* download or an exception out of convert_to_pdf jumps to an except arm.
PathAfter(path, r, c) ==
    IF r.status = "ok" /\ c.outcome \in {"path", "null"} THEN c.path ELSE path

\* Lines 194-220: one turn of "for attempt, file_url in enumerate(file_urls)":
\* download the URL and convert what it returned.
TryCandidate ==
    /\ pc = "resolve"
    /\ LET e == files_by_nid[item]
           url == e.urls[attempt]
       IN  \E r \in Responses(url) :
             LET c == IF r.status = "ok"
                      THEN convert_to_pdf(r.content, r.content_type, fs, dir_exists, e.nid)
                      ELSE [outcome |-> "none", path |-> None, branch |-> "none",
                            ran_image |-> FALSE, files |-> fs]
                 path == PathAfter(pdf_path, r, c)
                 next == NextAttempt(path, attempt, Len(e.urls))
             IN  /\ response' = r
                 /\ conv' = [outcome |-> c.outcome, path |-> c.path,
                             branch |-> c.branch, ran_image |-> c.ran_image]
                 /\ fs' = c.files
                 /\ pdf_path' = path
                 /\ tried' = Append(tried, [url |-> url, status |-> r.status,
                                             outcome |-> c.outcome])
                 /\ attempt' = IF next = 0 THEN attempt ELSE next
                 /\ pc' = IF next = 0 THEN "finish_item" ELSE "resolve"
    /\ UNCHANGED <<members_data, KEEP_FILES, files_by_nid, item, pdf_files,
                   dir_exists, merge_call, uploaded, result, bg_tasks, outcomes>>
    /\ UNCHANGED <<fit_vars, server_vars>>

\* The append without its test.
AppendAlways(files_list, path) == Append(files_list, path)

\* Lines 222-225: "if pdf_path: pdf_files.append(pdf_path)".
AppendResolved(files_list, path) ==
    IF path # None THEN Append(files_list, path) ELSE files_list

\* Lines 222-225 and the outer loop's step to the next nid (pdf_path = None).
FinishItem ==
    /\ pc = "finish_item"
    /\ pdf_files' = AppendResolved(pdf_files, pdf_path)
    /\ outcomes' = Append(outcomes, IF pdf_path # None THEN fs[pdf_path] ELSE NoDoc)
    /\ IF item < Len(files_by_nid)
       THEN /\ item' = item + 1
            /\ attempt' = 1
            /\ pdf_path' = None
            /\ tried' = <<>>
            /\ pc' = "resolve"
       ELSE /\ pc' = "check"
            /\ UNCHANGED <<item, attempt, pdf_path, tried>>
    /\ UNCHANGED <<members_data, KEEP_FILES, files_by_nid, response, conv, fs,
                   dir_exists, merge_call, uploaded, result, bg_tasks>>
    /\ UNCHANGED <<fit_vars, server_vars>>

\* The check left out.
NoneConvertedNever(files_list) == FALSE

\* Line 227: "if not pdf_files".
NoneConverted(files_list) == files_list = <<>>

\* Lines 227-228: 500 when nothing was converted; the HTTPException is
\* re-raised as it is (line 299), with no cleanup.
CheckAny ==
    /\ pc = "check"
    /\ IF NoneConverted(pdf_files)
       THEN /\ result' = [status |-> 500, detail |-> "Could not convert any files to PDF"]
            /\ pc' = "done"
       ELSE /\ pc' = "merge"
            /\ UNCHANGED result
    /\ UNCHANGED <<members_data, KEEP_FILES, files_by_nid, item, attempt, pdf_path,
                   response, conv, pdf_files, fs, dir_exists, merge_call, uploaded,
                   bg_tasks, tried, outcomes>>
    /\ UNCHANGED <<fit_vars, server_vars>>

\* Lines 230-232 and, when merge_pdf_files raises, lines 301-309: the
\* processing directory is removed unless KEEP_FILES, and the request ends 500.
Merge ==
    /\ pc = "merge"
    /\ LET m == merge_pdf_files(pdf_files, fs)
       IN  /\ merge_call' = [called |-> TRUE,
                             inputs |-> [i \in 1..Len(pdf_files) |-> fs[pdf_files[i]]],
                             raised |-> m.raised, at |-> m.at]
           /\ IF m.raised
              THEN /\ fs' = IF KEEP_FILES THEN fs ELSE NoFiles
                   /\ dir_exists' = KEEP_FILES
                   /\ result' = [status |-> 500, detail |-> "Internal server error"]
                   /\ pc' = "done"
              ELSE /\ fs' = m.files
                   /\ pc' = "upload"
                   /\ UNCHANGED <<dir_exists, result>>
    /\ UNCHANGED <<members_data, KEEP_FILES, files_by_nid, item, attempt, pdf_path,
                   response, conv, pdf_files, uploaded, bg_tasks, tried, outcomes>>
    /\ UNCHANGED <<fit_vars, server_vars>>

\* Lines 236-297: fetch the TID, PUT merged.pdf, schedule the removal of the
\* processing directory and answer 200; a failed TID fetch or PUT ends the
\* request 500 (an HTTPException, re-raised with no cleanup).  uploaded is the
\* content httpx.put was given.
Upload ==
    /\ pc = "upload"
    /\ \E tid_ok \in BOOLEAN, put_ok \in BOOLEAN :
         IF ~tid_ok
         THEN /\ result' = [status |-> 500, detail |-> "Failed to fetch TID"]
              /\ UNCHANGED <<uploaded, bg_tasks>>
         ELSE /\ uploaded' = fs[MergedName]
              /\ IF put_ok
                 THEN /\ result' = [status |-> 200, detail |-> "success"]
                      /\ bg_tasks' = TRUE
                 ELSE /\ result' = [status |-> 500, detail |-> "Failed to PUT PDF"]
                      /\ UNCHANGED bg_tasks
    /\ pc' = "done"
    /\ UNCHANGED <<members_data, KEEP_FILES, files_by_nid, item, attempt, pdf_path,
                   response, conv, pdf_files, fs, dir_exists, merge_call, tried,
                   outcomes>>
    /\ UNCHANGED <<fit_vars, server_vars>>

\* Line 295: the background task shutil.rmtree(processing_dir, ignore_errors=True),
\* run after the response was sent.
BackgroundCleanup ==
    /\ bg_tasks
    /\ bg_tasks' = FALSE
    /\ fs' = NoFiles
    /\ dir_exists' = FALSE
    /\ UNCHANGED <<members_data, KEEP_FILES, pc, files_by_nid, item, attempt,
                   pdf_path, response, conv, pdf_files, merge_call, uploaded,
                   result, tried, outcomes>>
    /\ UNCHANGED <<fit_vars, server_vars>>

Next ==
    \/ Group
    \/ TryCandidate
    \/ FinishItem
    \/ CheckAny
    \/ Merge
    \/ Upload
    \/ BackgroundCleanup

Spec == Init /\ [][Next]_vars

-----------------------------------------------------------------------------
(* Vocabulary of the properties *)

\* Candidate j of the current nid was downloaded and normalized.
Succeeded(j) == tried[j].status = "ok" /\ tried[j].outcome = "path"

IsDoc(d) == d # NoDoc

\* The documents at the paths of a list, read from the files as they are now.
DocsAt(paths, files) == [i \in 1..Len(paths) |-> files[paths[i]]]

RECURSIVE ConcatPages(_)
ConcatPages(docs) ==
    IF docs = <<>> THEN <<>> ELSE Head(docs).pages \o ConcatPages(Tail(docs))

RECURSIVE SumPages(_)
SumPages(docs) ==
    IF docs = <<>> THEN 0 ELSE Len(Head(docs).pages) + SumPages(Tail(docs))

\* The nids already resolved that produced no document.
ZeroNormalized == \A i \in 1..Len(outcomes) : outcomes[i] = NoDoc

-----------------------------------------------------------------------------
(* C1 *)

\* C1: resolving a nid returns the document normalized from the first URL, in
\* list order, whose download and normalization both succeed: the URLs are
\* tried in list order from the first, every one tried before the last has
\* failed, and when the resolver ends on a success the returned path holds the
\* document made from that last URL (so no URL after it was fetched).
C1_FirstSuccessWins ==
    /\ \A j \in 1..(Len(tried) - 1) : ~Succeeded(j)
    /\ pc \in {"resolve", "finish_item"} =>
         /\ Len(tried) <= Len(files_by_nid[item].urls)
         /\ \A j \in 1..Len(tried) : tried[j].url = files_by_nid[item].urls[j]
    /\ pc = "finish_item" =>
         LET k == Len(tried)
         IN  /\ k >= 1
             /\ Succeeded(k) =>
                  /\ pdf_path = FileName(files_by_nid[item].nid)
                  /\ pdf_path \in DOMAIN fs
                  /\ fs[pdf_path].src = files_by_nid[item].urls[k]
                  /\ fs[pdf_path].src = response.content.src
             /\ ~Succeeded(k) => pdf_path = None

\* Two failing URLs, then a good one, and a fourth URL never fetched.
C1_Witness ==
    /\ pc = "finish_item"
    /\ Len(files_by_nid[item].urls) = 4
    /\ Len(tried) = 3
    /\ ~Succeeded(1) /\ ~Succeeded(2) /\ Succeeded(3)
    /\ tried[1].status = "connect"
    /\ tried[2].outcome = "null"

-----------------------------------------------------------------------------
(* C2 *)

\* C2: when every URL of a nid has failed (download error, timeout, HTTP
\* error, or normalization that gave no document), the nid resolves to None
\* with all its URLs tried, nothing is appended to the merge list, and the
\* request goes on to the next nid (or to the check after the last nid)
\* without ending in an error there.
C2_AllFailDropsItemAndContinues ==
    [][ (pc = "finish_item" /\ \A j \in 1..Len(tried) : ~Succeeded(j)) =>
          /\ Len(tried) = Len(files_by_nid[item].urls)
          /\ pdf_path = None
          /\ pdf_files' = pdf_files
          /\ outcomes' = Append(outcomes, NoDoc)
          /\ result' = NoResult
          /\ IF item < Len(files_by_nid)
             THEN pc' = "resolve" /\ item' = item + 1 /\ attempt' = 1
             ELSE pc' = "check" ]_vars

\* The first nid lost both its URLs (a timeout, then bytes that do not
\* normalize) and the second nid has been resolved to a document.
C2_Witness ==
    /\ pc = "finish_item"
    /\ item = 2
    /\ Len(outcomes) = 1 /\ outcomes[1] = NoDoc
    /\ pdf_files = <<>>
    /\ Len(tried) = 1 /\ Succeeded(1)
    /\ Len(files_by_nid[1].urls) = 2

-----------------------------------------------------------------------------
(* C3 *)

\* C3: the list handed to the merge step holds exactly one document per
\* resolved nid and none for the others, in nid order: read at the merge, the
\* documents at its paths are the documents the nids produced, in order.
C3_MergeListIsItemDocsInOrder ==
    pc = "merge" => DocsAt(pdf_files, fs) = SelectSeq(outcomes, IsDoc)

-----------------------------------------------------------------------------
(* C4 *)

\* C4: merging a list of parseable PDFs succeeds and writes one document whose
\* pages are the inputs' pages concatenated in list order, each input's pages
\* in their own order; its page count is the sum of the inputs' page counts.
C4_MergeConcatenates ==
    (merge_call.called /\ \A i \in 1..Len(merge_call.inputs) : Parseable(merge_call.inputs[i])) =>
        /\ ~merge_call.raised
        /\ pc = "upload" =>
             /\ MergedName \in DOMAIN fs
             /\ Parseable(fs[MergedName])
             /\ fs[MergedName].pages = ConcatPages(merge_call.inputs)
             /\ Len(fs[MergedName].pages) = SumPages(merge_call.inputs)

\* A source PDF of several pages merged with a one-page image document that
\* follows it.
C4_Witness ==
    /\ pc = "upload"
    /\ Len(merge_call.inputs) = 2
    /\ Len(merge_call.inputs[1].pages) = GoodPdfPages
    /\ merge_call.inputs[2].pages = <<OcrPage(<<2, 1>>)>>
    /\ Len(fs[MergedName].pages) = GoodPdfPages + 1

-----------------------------------------------------------------------------
(* C5 *)

\* C5: once a nid has normalized to a usable document, no failure of a
\* single URL or nid makes the request fail: a finished request with such a nid
\* has merged its documents, and ends 200 unless the upload itself (TID fetch,
\* PUT) failed.
C5_CandidateFailuresAbsorbed ==
    (pc = "done" /\ \E i \in 1..Len(outcomes) : Parseable(outcomes[i])) =>
        /\ merge_call.called /\ ~merge_call.raised
        /\ \/ result.status = 200
           \/ result.detail \in {"Failed to fetch TID", "Failed to PUT PDF"}

-----------------------------------------------------------------------------
(* C6 *)

\* C6: when no nid normalized, the request ends in an error response (400
\* when no nid had a URL at all, else 500 "Could not convert any files to
\* PDF"), and neither merge_pdf_files nor the PUT of a merged document is ever
\* executed.
C6_ZeroItemsIsFatal ==
    ZeroNormalized =>
        /\ ~merge_call.called
        /\ MergedName \notin DOMAIN fs
        /\ uploaded = NoDoc
        /\ pc \notin {"merge", "upload"}
        /\ pc = "done" =>
             result = IF files_by_nid = <<>>
                      THEN [status |-> 400, detail |-> "No files found in members data"]
                      ELSE [status |-> 500, detail |-> "Could not convert any files to PDF"]

\* Two nids, each with all its URLs failed, and the request ended 500.
C6_Witness ==
    /\ pc = "done"
    /\ Len(files_by_nid) = 2
    /\ Len(outcomes) = 2
    /\ ZeroNormalized
    /\ result.status = 500

-----------------------------------------------------------------------------
(* C7 *)

\* C7: when an input of the merge cannot be parsed, merge_pdf_files raises at
\* the first such input instead of skipping it, writes no merged.pdf, and the
\* request ends 500 with nothing uploaded.
C7_MergeFailsFast ==
    (merge_call.called /\ \E i \in 1..Len(merge_call.inputs) : ~Parseable(merge_call.inputs[i])) =>
        /\ merge_call.raised
        /\ ~Parseable(merge_call.inputs[merge_call.at])
        /\ \A i \in 1..(merge_call.at - 1) : Parseable(merge_call.inputs[i])
        /\ MergedName \notin DOMAIN fs
        /\ uploaded = NoDoc
        /\ pc = "done"
        /\ result = [status |-> 500, detail |-> "Internal server error"]

\* A parseable first input, an unparseable second one, the files kept.
C7_Witness ==
    /\ merge_call.called
    /\ merge_call.raised
    /\ merge_call.at = 2
    /\ Parseable(merge_call.inputs[1])
    /\ KEEP_FILES
    /\ DOMAIN fs # {}

-----------------------------------------------------------------------------
(* C8 *)

\* C8: convert_to_pdf never raises, whatever the bytes, the content-type and
\* the identifier: on each of its three branches a failure returns None.
C8_ConvertNeverRaises ==
    conv.outcome # "raised"

-----------------------------------------------------------------------------
(* C9 *)

\* C9: when the OCR engine fails on a decodable image whose page could be
\* written, the candidate still normalizes: convert_to_pdf returns a path.
C9_OcrFailureStillNormalizes ==
    (/\ pc \in {"resolve", "finish_item"}
     /\ tried # <<>>
     /\ response.status = "ok"
     /\ conv.ran_image
     /\ Decodable(response.content) /\ ~OcrSucceeds(response.content)
     /\ dir_exists /\ ~HasSep(FileName(files_by_nid[item].nid))) =>
        conv.outcome = "path"

-----------------------------------------------------------------------------
(* C10 *)

\* C10: when the content-type is application/pdf or the bytes begin with the
\* PDF signature, convert_to_pdf stores the bytes verbatim in the nid's file
\* and returns its path, whatever the bytes are, and never calls the image
\* pipeline.
C10_PdfPassThrough ==
    (/\ pc \in {"resolve", "finish_item"}
     /\ tried # <<>>
     /\ response.status = "ok"
     /\ IsPdfType(response.content_type) \/ HasPdfSignature(response.content)) =>
        /\ conv.outcome = "path"
        /\ ~conv.ran_image
        /\ conv.path = FileName(files_by_nid[item].nid)
        /\ conv.path \in DOMAIN fs
        /\ fs[conv.path] = response.content


-----------------------------------------------------------------------------
(* _fit_image_to_pdf: the geometry of one image *)

\* Lines 30-31: int(8.5 * DPI) and int(11.0 * DPI).  8.5 * DPI is exact in
\* floating point for the values considered, and int() truncates it.
LETTER_WIDTH_PX(dpi) == (17 * dpi) \div 2
LETTER_HEIGHT_PX(dpi) == 11 * dpi

\* The values of MERGEPDF_DPI followed: the small ones and the default.
FitDPIs == (1..MaxSmallDPI) \cup {DefaultDPI}

\* A ratio of two positive integers stands for the float quotient.
Ratio(n, d) == [num |-> n, den |-> d]
RatLeq(a, b) == a.num * b.den <= b.num * a.den
RatMin(a, b) == IF RatLeq(a, b) THEN a ELSE b
One == Ratio(1, 1)

\* A scale factor that forgets the height.
scale_factor_width_only(orig_width, orig_height, dpi) ==
    RatMin(Ratio(LETTER_WIDTH_PX(dpi), orig_width), One)

\* Lines 353-355: min(scale_width, scale_height, 1.0).
scale_factor(orig_width, orig_height, dpi) ==
    RatMin(RatMin(Ratio(LETTER_WIDTH_PX(dpi), orig_width),
                  Ratio(LETTER_HEIGHT_PX(dpi), orig_height)),
           One)

\* Lines 358-359: int(orig * scale_factor).  The product of a size and a
\* rounded quotient is the exact product or a value just next to it; when the
\* exact product is an integer, truncation can therefore give one less.
FloatTrunc(size, scale) ==
    LET exact == (size * scale.num) \div scale.den
    IN  {exact} \cup (IF (size * scale.num) % scale.den = 0 THEN {exact - 1} ELSE {})

ExifOrientations == {"none", "rot90"}
Swapped(img) == [img EXCEPT !.w = img.h, !.h = img.w]

\* Line 319 onwards: a decoded image of some size, under some configured DPI.
RequestIdle(at) ==
    /\ members_data = <<>>
    /\ pc = at
    /\ files_by_nid = <<>>
    /\ item = 0
    /\ attempt = 0
    /\ pdf_path = None
    /\ response = NoResponse
    /\ conv = NoConv
    /\ pdf_files = <<>>
    /\ fs = NoFiles
    /\ dir_exists = FALSE
    /\ merge_call = NoMerge
    /\ uploaded = NoDoc
    /\ result = NoResult
    /\ bg_tasks = FALSE
    /\ tried = <<>>
    /\ outcomes = <<>>

InitFit ==
    /\ DPI \in FitDPIs
    /\ \E w0 \in 1..MaxImagePx, h0 \in 1..MaxImagePx, e \in ExifOrientations :
           image = [NoImage EXCEPT !.stage = "decoded", !.w = w0, !.h = h0,
                                   !.in_w = w0, !.in_h = h0, !.exif = e]
    /\ KEEP_FILES = FALSE
    /\ RequestIdle("fit")
    /\ ServerIdle

\* Lines 327-340: conversion to RGB keeps the size; exif_transpose applies the
\* orientation tag, which for the quarter turns exchanges width and height.
FitTranspose ==
    /\ image.stage = "decoded"
    /\ image' = [(IF image.exif = "rot90" THEN Swapped(image) ELSE image)
                     EXCEPT !.stage = "transposed"]
    /\ UNCHANGED <<request_vars, KEEP_FILES, DPI, server_vars>>

\* Lines 342-347: a landscape image is turned by 90 degrees.
FitPortrait ==
    /\ image.stage = "transposed"
    /\ image' = [(IF image.w > image.h THEN Swapped(image) ELSE image)
                     EXCEPT !.stage = "portrait"]
    /\ UNCHANGED <<request_vars, KEEP_FILES, DPI, server_vars>>

\* Lines 350-366: the scale factor, the new size, and the resize when the
\* factor is below 1.0; Image.resize raises on a size of zero.
FitScale ==
    /\ image.stage = "portrait"
    /\ LET scale == scale_factor(image.w, image.h, DPI)
           orig  == [image EXCEPT !.orig_w = image.w, !.orig_h = image.h]
       IN  IF RatLeq(One, scale)
           THEN image' = [orig EXCEPT !.stage = "fitted"]
           ELSE \E new_width \in FloatTrunc(image.w, scale),
                   new_height \in FloatTrunc(image.h, scale) :
                    IF new_width <= 0 \/ new_height <= 0
                    THEN image' = [orig EXCEPT !.stage = "failed"]
                    ELSE image' = [orig EXCEPT !.stage = "fitted",
                                               !.w = new_width, !.h = new_height]
    /\ UNCHANGED <<request_vars, KEEP_FILES, DPI, server_vars>>

\* Lines 369-382: OCR (which may raise), then one blank page of
\* LETTER_WIDTH_PX * (72.0 / DPI) by LETTER_HEIGHT_PX * (72.0 / DPI) points on
\* which the OCR page is merged.  pdf_w and pdf_h hold the size in points
\* multiplied by DPI, so that it stays an integer.
FitPage ==
    /\ image.stage = "fitted"
    /\ \E ocr_ok \in BOOLEAN :
           IF ocr_ok
           THEN image' = [image EXCEPT !.stage = "page", !.pdf_pages = 1,
                                       !.pdf_w = LETTER_WIDTH_PX(DPI) * 72,
                                       !.pdf_h = LETTER_HEIGHT_PX(DPI) * 72]
           ELSE image' = [image EXCEPT !.stage = "failed"]
    /\ UNCHANGED <<request_vars, KEEP_FILES, DPI, server_vars>>

NextFit ==
    \/ FitTranspose
    \/ FitPortrait
    \/ FitScale
    \/ FitPage

SpecFit == InitFit /\ [][NextFit]_vars

Dist(a, b) == IF a >= b THEN a - b ELSE b - a

\* C12: for every configured DPI, an image that normalizes gives exactly one
\* page whose size is US Letter, 8.5 x 11 inches = 612 x 792 points, within 5
\* points in width and in height (all three sizes are multiplied by DPI).
C12_PageIsLetterWithinFivePoints ==
    image.stage = "page" =>
        /\ image.pdf_pages = 1
        /\ Dist(image.pdf_w, 612 * DPI) <= 5 * DPI
        /\ Dist(image.pdf_h, 792 * DPI) <= 5 * DPI

-----------------------------------------------------------------------------
(* Several /merge requests served by one process *)

RequestIds == 1..MaxRequests

\* The positions at which a handler is running.  merge_pdfs is a coroutine
\* without any await, so the event loop runs one handler at a time.
Handling == {"convert", "merge", "upload"}
LoopFree == \A q \in RequestIds : requests[q].pc \notin Handling

\* Line 186: os.makedirs(processing_dir, exist_ok=True) keeps what is there.
makedirs(d) == [d EXCEPT !.exists = TRUE]

\* Lines 295 and 305: shutil.rmtree(processing_dir, ignore_errors=True).
rmtree(d) == NoDir

\* The requests whose files a directory holds.
Owners(d) == ({d.inter[n] : n \in 1..MaxNids} \cup {d.merged}) \ {0}

\* The requests a removal of directory a by request r interferes with: those
\* whose files it holds, and the one whose handler is working in it.
Deleted(r, a) ==
    (Owners(temp_root[a]) \cup
     {q \in RequestIds : requests[q].dir = a /\ requests[q].pc \in Handling}) \ {r}

Touch(kind, r, others) == {[kind |-> kind, by |-> r, of |-> q] : q \in others \ {0, r}}

InitServer ==
    /\ KEEP_FILES \in BOOLEAN
    /\ ServerIdle
    /\ FitIdle
    /\ RequestIdle("serve")

\* Lines 86-186: a request arrives when the loop is free; its directory is
\* request_<id(href)>.  id() is the address of the href string, which is any
\* address not held by a live object: the hrefs of earlier requests are dead.
BeginRequest(r) ==
    /\ ~exited
    /\ requests[r].pc = "waiting"
    /\ LoopFree
    /\ \E a \in 1..MaxAddresses, n \in 1..MaxNids :
           /\ requests' = [requests EXCEPT ![r] =
                  [NoRequest EXCEPT !.pc = "convert", !.dir = a, !.nid = n]]
           /\ temp_root' = [temp_root EXCEPT ![a] = makedirs(@)]
    /\ UNCHANGED <<request_vars, KEEP_FILES, fit_vars, bg, exited, interference>>

\* Lines 192-228: the item's document is written to file_<nid>.pdf; when
\* nothing was converted, or the file cannot be opened because the directory
\* is gone, the request ends with HTTPException(500) and nothing is removed.
ConvertItems(r) ==
    /\ ~exited
    /\ requests[r].pc = "convert"
    /\ LET a == requests[r].dir
           n == requests[r].nid
           d == temp_root[a]
       IN  \E converted \in BOOLEAN :
               IF converted /\ d.exists
               THEN /\ temp_root' = [temp_root EXCEPT ![a].inter[n] = r]
                    /\ interference' = interference \cup Touch("overwrite", r, {d.inter[n]})
                    /\ requests' = [requests EXCEPT ![r].pc = "merge",
                                                    ![r].wrote_file = TRUE]
               ELSE /\ requests' = [requests EXCEPT ![r].pc = "http_error"]
                    /\ UNCHANGED <<temp_root, interference>>
    /\ UNCHANGED <<request_vars, KEEP_FILES, fit_vars, bg, exited>>

\* Lines 232 and 420-449, 301-309: merge_pdf_files reads file_<nid>.pdf and
\* writes merged.pdf; when it raises, the directory is removed unless
\* KEEP_FILES, and the request ends with HTTPException(500).
MergeFiles(r) ==
    /\ ~exited
    /\ requests[r].pc = "merge"
    /\ LET a == requests[r].dir
           n == requests[r].nid
           d == temp_root[a]
       IN  \E parses \in BOOLEAN :
               IF parses /\ d.exists /\ d.inter[n] # 0
               THEN /\ temp_root' = [temp_root EXCEPT ![a].merged = r]
                    /\ interference' = interference
                           \cup Touch("read", r, {d.inter[n]})
                           \cup Touch("overwrite", r, {d.merged})
                    /\ requests' = [requests EXCEPT ![r].pc = "upload",
                                                    ![r].wrote_merged = TRUE]
               ELSE /\ requests' = [requests EXCEPT ![r].pc = "error"]
                    /\ IF KEEP_FILES
                       THEN UNCHANGED <<temp_root, interference>>
                       ELSE /\ temp_root' = [temp_root EXCEPT ![a] = rmtree(@)]
                            /\ interference' = interference
                                   \cup Touch("delete", r, Deleted(r, a))
    /\ UNCHANGED <<request_vars, KEEP_FILES, fit_vars, bg, exited>>

\* Lines 236-300: the TID is fetched and merged.pdf is read and PUT; a failure
\* is an HTTPException(500), re-raised with nothing removed; on success the
\* removal of the directory is scheduled, whatever KEEP_FILES says.
UploadMerged(r) ==
    /\ ~exited
    /\ requests[r].pc = "upload"
    /\ LET a == requests[r].dir
           d == temp_root[a]
       IN  \E tid_ok \in BOOLEAN, put_ok \in BOOLEAN :
               IF tid_ok /\ put_ok /\ d.exists /\ d.merged # 0
               THEN /\ interference' = interference \cup Touch("read", r, {d.merged})
                    /\ bg' = bg \cup {[by |-> r, dir |-> a]}
                    /\ requests' = [requests EXCEPT ![r].pc = "success"]
               ELSE /\ requests' = [requests EXCEPT ![r].pc = "http_error"]
                    /\ UNCHANGED <<bg, interference>>
    /\ UNCHANGED <<request_vars, KEEP_FILES, fit_vars, temp_root, exited>>

\* Line 295: a scheduled shutil.rmtree runs in the thread pool once the
\* response has been sent, at any moment relative to later handlers.
BackgroundRmtree(r) ==
    /\ ~exited
    /\ \E t \in bg :
           /\ t.by = r
           /\ bg' = bg \ {t}
           /\ temp_root' = [temp_root EXCEPT ![t.dir] = rmtree(@)]
           /\ interference' = interference \cup Touch("delete", r, Deleted(r, t.dir))
    /\ UNCHANGED <<request_vars, KEEP_FILES, fit_vars, requests, exited>>

\* Lines 63-77: at exit cleanup_temp_dir removes PERSISTENT_TEMP_DIR unless
\* KEEP_FILES.
ProcessExit ==
    /\ ~exited
    /\ exited' = TRUE
    /\ temp_root' = IF KEEP_FILES THEN temp_root
                    ELSE [a \in 1..MaxAddresses |-> rmtree(temp_root[a])]
    /\ UNCHANGED <<request_vars, KEEP_FILES, fit_vars, requests, bg, interference>>

NextServer ==
    \/ \E r \in RequestIds : BeginRequest(r)
    \/ \E r \in RequestIds : ConvertItems(r)
    \/ \E r \in RequestIds : MergeFiles(r)
    \/ \E r \in RequestIds : UploadMerged(r)
    \/ \E r \in RequestIds : BackgroundRmtree(r)
    \/ ProcessExit

SpecServer == InitServer /\ [][NextServer]_vars

\* C13: in every interleaving of the requests of one process and of their
\* background removals, no request reads, overwrites or deletes the files of
\* another request, nor the directory another request is working in.
C13_NoInterference ==
    interference = {}

\* C14: when KEEP_FILES is set, the directory of every request that got one
\* still exists, and so do the files the request wrote, on every exit path of
\* the request and after the process has exited.
C14_KeepFilesKeepsEverything ==
    KEEP_FILES =>
        \A r \in RequestIds :
            requests[r].dir # 0 =>
                LET d == temp_root[requests[r].dir]
                IN  /\ d.exists
                    /\ requests[r].wrote_file => d.inter[requests[r].nid] # 0
                    /\ requests[r].wrote_merged => d.merged # 0

=============================================================================
